---- MODULE Spec2Model ----
(***************************************************************************)
(* Model of crime_anniversaries.py: the Wikidata normaliser                *)
(* (process_wikidata_results), the On-This-Day loop of main and the export *)
(* step.  Strings are sequences of one-character strings; an optional      *)
(* value (dict.get without default) is a sequence of length 0 or 1.        *)
(***************************************************************************)
EXTENDS Integers, Sequences, FiniteSets, TLC

\* ------------------------------------------------------------------ settings
YEAR_CUTOFF == 1900
MAX_PAGES == 5
\* range(1, 367): the last day index of the loop
LastDay == 366

\* ------------------------------------------------------------------ bounds
\* most rows in one Wikidata result set
MaxBatch == 2
\* most records the run accumulates; a day feed has no more events than the
\* records still to come
MaxRows == 2
\* longest pages list of a feed event
MaxPagesLen == 6

\* ------------------------------------------------------------------ calendar
\* calendar.month_name[1..12]
month_name ==
    << <<"J","a","n","u","a","r","y">>, <<"F","e","b","r","u","a","r","y">>,
       <<"M","a","r","c","h">>, <<"A","p","r","i","l">>, <<"M","a","y">>,
       <<"J","u","n","e">>, <<"J","u","l","y">>, <<"A","u","g","u","s","t">>,
       <<"S","e","p","t","e","m","b","e","r">>, <<"O","c","t","o","b","e","r">>,
       <<"N","o","v","e","m","b","e","r">>, <<"D","e","c","e","m","b","e","r">> >>

IsLeap(y) == (y % 4 = 0 /\ y % 100 # 0) \/ y % 400 = 0

DaysInMonth(y, m) ==
    IF m = 2 THEN (IF IsLeap(y) THEN 29 ELSE 28)
    ELSE IF m \in {4, 6, 9, 11} THEN 30 ELSE 31

\* days of year y before the first of month m
RECURSIVE DaysBefore(_, _)
DaysBefore(y, m) == IF m = 1 THEN 0 ELSE DaysBefore(y, m - 1) + DaysInMonth(y, m - 1)

\* datetime.date(2024, 1, 1) + datetime.timedelta(days = day - 1)
DateOfDay(day) ==
    LET m == CHOOSE k \in 1..12 :
                 DaysBefore(2024, k) < day /\ day <= DaysBefore(2024, k) + DaysInMonth(2024, k)
    IN  [month |-> m, day |-> day - DaysBefore(2024, m)]

\* f"{n:02}"
Pad2(n) == <<n \div 10, n % 10>>

\* f"{calendar.month_name[dt.month]} {dt.day}"
DateLabel(m, d) == [name |-> month_name[m], num |-> d]

\* StrptimeKey with the day read before the month
StrptimeKey_DayFirst(label) ==
    LET m == CHOOSE k \in 1..12 : month_name[k] = label.name
    IN  label.num * 100 + m

\* datetime.datetime.strptime(f"{label} 2024", "%B %d %Y"), as the ordinal of
\* the parsed day in 2024
StrptimeKey(label) ==
    LET m == CHOOSE k \in 1..12 : month_name[k] = label.name
    IN  DaysBefore(2024, m) + label.num

\* ------------------------------------------------------------------ strings
Digits == {"0", "1", "2", "3", "4", "5", "6", "7", "8", "9"}

\* str.startswith('Q')
StartsWithQ(s) == Len(s) > 0 /\ s[1] = "Q"

\* str.replace("_", " ")
ReplaceUnderscore(s) == [i \in 1..Len(s) |-> IF s[i] = "_" THEN " " ELSE s[i]]

\* str.lower() on the letters the model uses
LowerChar(c) ==
    CASE c = "M" -> "m" [] c = "P" -> "p" [] c = "Q" -> "q" [] c = "S" -> "s"
      [] c = "T" -> "t" [] OTHER -> c

Lower(s) == [i \in 1..Len(s) |-> LowerChar(s[i])]

\* ", ".join(parts)
RECURSIVE Join(_)
Join(parts) ==
    IF parts = <<>> THEN <<>>
    ELSE IF Len(parts) = 1 THEN parts[1]
    ELSE parts[1] \o <<",", " ">> \o Join(Tail(parts))

\* dict.get(key, default) on an optional value
GetOr(opt, default) == IF opt = <<>> THEN default ELSE opt[1]

\* ------------------------------------------------------------------ Wikidata rows
\* datetime.datetime.fromisoformat(date_str.replace('Z', '+00:00')): a date
\* string is held as the numbers it spells, <<year, month, day>>; it parses
\* when they name a calendar day, and raises ValueError otherwise
IsIsoDate(s) ==
    /\ Len(s) = 3
    /\ s[1] \in 1..9999
    /\ s[2] \in 1..12
    /\ s[3] \in 1..DaysInMonth(s[1], s[2])

\* the date strings of the result rows: well-formed ones on both sides of the
\* cutoff, the empty string, and two strings that name no calendar day
WdDateStrings ==
    { <<2000, 2, 29>>, <<1950, 3, 31>>, <<1899, 1, 10>>, <<1950, 1, 2>>,
      <<>>, <<1950, 2, 30>>, <<1900, 2, 29>> }

\* the itemLabel values: resolved text, resolved text that begins with Q,
\* raw entity identifiers, the empty string
WdLabelStrings ==
    { <<"M">>, <<"Q", "u">>, <<"Q", "1">>, <<"Q", "1", "2">>, <<>> }

Optional(S) == {<<>>} \cup {<<v>> : v \in S}

\* one binding of results.bindings; countryLabel, crimeTypeLabel and article
\* are OPTIONAL in the query and come with the leap-day row only
WdRow(date, label) ==
    LET full == date = << <<2000, 2, 29>> >>
    IN  [date |-> date, itemLabel |-> label,
         countryLabel |-> IF full THEN << <<"T">> >> ELSE <<>>,
         crimeTypeLabel |-> IF full THEN << <<"M", "u">> >> ELSE <<>>,
         article |-> IF full THEN << <<"w">> >> ELSE <<>>]

WdRows == { WdRow(d, l) : d \in Optional(WdDateStrings), l \in Optional(WdLabelStrings) }

RECURSIVE SeqsUpTo(_, _)
SeqsUpTo(S, n) ==
    IF n = 0 THEN {<<>>}
    ELSE LET shorter == SeqsUpTo(S, n - 1)
         IN  shorter \cup { Append(q, x) : q \in {r \in shorter : Len(r) = n - 1}, x \in S }

\* ------------------------------------------------------------------ accumulators
\* the payload of an entry of events_by_date: the row without month, day,
\* latitude, longitude and source
Payload(row) ==
    [year_of_event |-> row.year_of_event, event |-> row.event, title |-> row.title,
     description |-> row.description, crime_type |-> row.crime_type,
     country |-> row.country, url |-> row.url, extract |-> row.extract,
     related_topics |-> row.related_topics, topic_page_urls |-> row.topic_page_urls]

\* events_by_date is a defaultdict(list); it is held as the sequence of its
\* items in insertion order
HasKey(ebd, label) == \E i \in 1..Len(ebd) : ebd[i].label = label

\* GroupAppend that assigns the list instead of appending to it
GroupAppend_Assign(ebd, label, entry) ==
    IF HasKey(ebd, label)
    THEN [i \in 1..Len(ebd) |->
             IF ebd[i].label = label THEN [label |-> label, entries |-> <<entry>>] ELSE ebd[i]]
    ELSE Append(ebd, [label |-> label, entries |-> <<entry>>])

\* events_by_date[label].append(entry)
GroupAppend(ebd, label, entry) ==
    IF HasKey(ebd, label)
    THEN [i \in 1..Len(ebd) |->
             IF ebd[i].label = label
             THEN [label |-> label, entries |-> Append(ebd[i].entries, entry)]
             ELSE ebd[i]]
    ELSE Append(ebd, [label |-> label, entries |-> <<entry>>])

\* the row dict built by process_wikidata_results for a row that passed
WikidataRecord(item) ==
    LET dt == item.date[1]
        event_text == item.itemLabel[1]
    IN  [source |-> "Wikidata", month |-> Pad2(dt[2]), day |-> Pad2(dt[3]),
         year_of_event |-> dt[1], event |-> event_text, title |-> event_text,
         description |-> <<"S">>,
         crime_type |-> Lower(GetOr(item.crimeTypeLabel, <<"c", "r", "i", "m", "e">>)),
         country |-> GetOr(item.countryLabel, <<>>), url |-> GetOr(item.article, <<>>),
         latitude |-> <<>>, longitude |-> <<>>, extract |-> <<>>,
         related_topics |-> <<>>, topic_page_urls |-> <<>>]

\* DateRejected without the ValueError of fromisoformat
DateRejected_NoParse(item) ==
    \/ item.date = <<>>
    \/ item.date[1] = <<>>

\* "if not date_str: raise ValueError" and the ValueError of fromisoformat
DateRejected(item) ==
    \/ item.date = <<>>
    \/ item.date[1] = <<>>
    \/ ~IsIsoDate(item.date[1])

\* "if not event_text or event_text.startswith('Q'): raise ValueError"
LabelRejected(item) ==
    \/ item.itemLabel = <<>>
    \/ item.itemLabel[1] = <<>>
    \/ StartsWithQ(item.itemLabel[1])

\* ------------------------------------------------------------------ On-This-Day feed
\* alternatives of CRIME_RE that the texts of the model can contain
CrimeKeywords == { <<"s", "c", "a", "m">>, <<"r", "a", "p", "e">> }

\* \w of the regular expression, on the characters the model uses
IsWordChar(c) == c \notin {" ", ",", ":"}

\* keyword k of CRIME_RE matches text at position i, case-insensitively
\* (re.I) and between word boundaries (\b)
MatchesAt(text, i, k) ==
    /\ i + Len(k) - 1 <= Len(text)
    /\ Lower(SubSeq(text, i, i + Len(k) - 1)) = k
    /\ (i = 1 \/ ~IsWordChar(text[i - 1]))
    /\ (i + Len(k) - 1 = Len(text) \/ ~IsWordChar(text[i + Len(k)]))

\* CRIME_RE.search(text) is not None
HasMatch(text) == \E i \in 1..Len(text) : \E k \in CrimeKeywords : MatchesAt(text, i, k)

\* match.group(1).lower() of the leftmost match
MatchGroup(text) ==
    LET i == CHOOSE j \in 1..Len(text) :
                 /\ \E k \in CrimeKeywords : MatchesAt(text, j, k)
                 /\ \A h \in 1..(j - 1) : \A k \in CrimeKeywords : ~MatchesAt(text, h, k)
        k == CHOOSE kw \in CrimeKeywords : MatchesAt(text, i, kw)
    IN  Lower(SubSeq(text, i, i + Len(k) - 1))

DigitChar == <<"1", "2", "3", "4", "5", "6", "7", "8", "9">>

\* page number i of an event: the primary carries description, page url and
\* extract, the second page carries coordinates and a page url
FeedPage(i, titled) ==
    [title |-> IF titled THEN << <<"P", "_", DigitChar[i]>> >> ELSE <<>>,
     description |-> IF i = 1 THEN << <<"d">> >> ELSE <<>>,
     page_url |-> IF i <= 2 THEN << <<"u", DigitChar[i]>> >> ELSE <<>>,
     extract |-> IF i = 1 THEN << <<"x">> >> ELSE <<>>,
     coordinates |-> IF i = 2 THEN << [lat |-> <<48>>, lon |-> <<2>>] >> ELSE <<>>]

\* a pages list of n pages, all titled except page number untitled (0: none)
PageList(n, untitled) == [i \in 1..n |-> FeedPage(i, i # untitled)]

\* the pages values of the feed events: no key, empty, one page, two pages,
\* the longest list, and lists with a page that has no title
PagesValues ==
    { <<>>, << <<>> >>, << PageList(1, 0) >>, << PageList(2, 0) >>,
      << PageList(MaxPagesLen, 0) >>, << PageList(1, 1) >>, << PageList(2, 2) >>,
      << PageList(MaxPagesLen, MaxPagesLen) >> }

TextScam == <<"S", "c", "a", "m">>
TextScams == <<"s", "c", "a", "m", "s">>
TextRape == <<"T", " ", "r", "a", "p", "e", ",", " ", "s", "c", "a", "m">>

\* the events of a day feed: every pages value under a matching text and a
\* year at the cutoff, and every text and year with a two-page list
FeedEvents ==
    { [text |-> << TextScam >>, year |-> <<YEAR_CUTOFF>>, pages |-> p] : p \in PagesValues }
    \cup { [text |-> t, year |-> <<YEAR_CUTOFF>>, pages |-> << PageList(2, 0) >>] :
             t \in {<<>>, << TextScams >>, << TextRape >>} }
    \cup { [text |-> << TextScam >>, year |-> y, pages |-> << PageList(2, 0) >>] :
             y \in {<<>>, <<YEAR_CUTOFF - 1>>, <<YEAR_CUTOFF + 50>>} }
    \cup { [text |-> << TextScams >>, year |-> <<>>, pages |-> <<>>] }

\* the days whose feed carries events: January 2, March 1, April 1
EventDays == {2, 61, 92}

\* the three "continue" filters of the event loop, for an event with a text
EventKept(ev) ==
    /\ HasMatch(ev.text[1])
    /\ ~(ev.year = <<>> \/ ev.year[1] < YEAR_CUTOFF)
    /\ GetOr(ev.pages, <<>>) # <<>>

\* ev["text"], first_page["title"] or p["title"] of a related page raises
\* KeyError, which nothing in main catches
RaisesKeyError(ev) ==
    IF ev.text = <<>> THEN TRUE
    ELSE IF ~EventKept(ev) THEN FALSE
    ELSE \E i \in 1..Len(ev.pages[1]) : i <= MAX_PAGES /\ ev.pages[1][i].title = <<>>

\* RelatedPages with the slice pages[0:MAX_PAGES]
RelatedPages_FromPrimary(pages) ==
    SubSeq(pages, 1, IF Len(pages) < MAX_PAGES THEN Len(pages) ELSE MAX_PAGES)

\* pages[1:MAX_PAGES]
RelatedPages(pages) ==
    IF Len(pages) < 2 THEN <<>>
    ELSE SubSeq(pages, 2, IF Len(pages) < MAX_PAGES THEN Len(pages) ELSE MAX_PAGES)

\* the first truthy p.get("coordinates") of pages[:MAX_PAGES], or ""
Coordinates(pages) ==
    LET scanned == {i \in 1..Len(pages) : i <= MAX_PAGES /\ pages[i].coordinates # <<>>}
    IN  IF scanned = {} THEN <<>>
        ELSE pages[CHOOSE i \in scanned : \A j \in scanned : i <= j].coordinates

\* f'{title}: {desktop page url}' of a related page
TopicUrl(p) == ReplaceUnderscore(p.title[1]) \o <<":", " ">> \o GetOr(p.page_url, <<>>)

\* the row dict built by main for a feed event that passed the filters
OnThisDayRecord(ev, dt) ==
    LET pages == ev.pages[1]
        first_page == pages[1]
        coordinates == Coordinates(pages)
        related_pages == RelatedPages(pages)
    IN  [source |-> "OnThisDay", month |-> Pad2(dt.month), day |-> Pad2(dt.day),
         year_of_event |-> ev.year[1], event |-> ev.text[1],
         title |-> ReplaceUnderscore(first_page.title[1]),
         description |-> GetOr(first_page.description, <<>>),
         crime_type |-> MatchGroup(ev.text[1]), country |-> <<>>,
         url |-> GetOr(first_page.page_url, <<>>),
         latitude |-> IF coordinates = <<>> THEN <<>> ELSE coordinates[1].lat,
         longitude |-> IF coordinates = <<>> THEN <<>> ELSE coordinates[1].lon,
         extract |-> GetOr(first_page.extract, <<>>),
         related_topics |->
             Join([i \in 1..Len(related_pages) |-> ReplaceUnderscore(related_pages[i].title[1])]),
         topic_page_urls |->
             Join([i \in 1..Len(related_pages) |-> TopicUrl(related_pages[i])])]

\* ------------------------------------------------------------------ export
\* sorted(items, key = ...): Python's sort is stable; keys[i] is the key of items[i]
SortedByKey(items, keys) ==
    LET n == Len(items)
        Rank(i) == 1 + Cardinality({j \in 1..n : keys[j] < keys[i] \/ (keys[j] = keys[i] /\ j < i)})
    IN  [r \in 1..n |-> items[CHOOSE i \in 1..n : Rank(i) = r]]

\* the order of two-character digit strings, as a number
StrOrd(s) == s[1] * 10 + s[2]

\* sort_values(["month", "day", "year_of_event"])
RowKey(row) == (StrOrd(row.month) * 100 + StrOrd(row.day)) * 10000 + row.year_of_event

SortRows(rows) == SortedByKey(rows, [i \in 1..Len(rows) |-> RowKey(rows[i])])

\* dict(sorted(events_by_date.items(), key = strptime(f"{item[0]} 2024", "%B %d %Y")))
SortGroups(ebd) == SortedByKey(ebd, [i \in 1..Len(ebd) |-> StrptimeKey(ebd[i].label)])

\* ------------------------------------------------------------------ state
VARIABLES
    pc,                    \* where main is
    all_rows,              \* the flat list
    events_by_date,        \* the date group map
    results,               \* data['results']['bindings'] being processed
    idx,                   \* position of the row loop in results
    processed_count,
    skipped_count,
    day,                   \* loop variable of range(1, 367)
    calls,                 \* the day of every session.get issued, in order
    slept,                 \* time.sleep has run since the latest session.get
    events,                \* data.get("events", []) of the day being processed
    ev_idx,                \* position of the event loop in events
    df,                    \* the rows written to the csv file
    sorted_events_by_date, \* the items written to the json file
    saved                  \* the two files have been written

vars == <<pc, all_rows, events_by_date, results, idx, processed_count, skipped_count,
          day, calls, slept, events, ev_idx, df, sorted_events_by_date, saved>>

GET_WIKIDATA == TRUE
GET_ON_THIS_DAY == TRUE

Init ==
    /\ pc = "start"
    /\ all_rows = <<>>
    /\ events_by_date = <<>>
    /\ results = <<>>
    /\ idx = 1
    /\ processed_count = 0
    /\ skipped_count = 0
    /\ day = 1
    /\ calls = <<>>
    /\ slept = FALSE
    /\ events = <<>>
    /\ ev_idx = 1
    /\ df = <<>>
    /\ sorted_events_by_date = <<>>
    /\ saved = FALSE

\* query_wikidata_crimes catches the RequestException and returns None
QueryFailed ==
    /\ pc = "start" /\ GET_WIKIDATA
    /\ pc' = "feed"
    /\ UNCHANGED <<all_rows, events_by_date, results, idx, processed_count, skipped_count,
                   day, calls, slept, events, ev_idx, df, sorted_events_by_date, saved>>

\* the response is empty or has no results.bindings: nothing is processed
ResultsMalformed ==
    /\ pc = "start" /\ GET_WIKIDATA
    /\ pc' = "feed"
    /\ UNCHANGED <<all_rows, events_by_date, results, idx, processed_count, skipped_count,
                   day, calls, slept, events, ev_idx, df, sorted_events_by_date, saved>>

\* process_wikidata_results starts on the bindings of the response
ResultsReceived ==
    /\ pc = "start" /\ GET_WIKIDATA
    /\ \E batch \in SeqsUpTo(WdRows, MaxBatch) : results' = batch
    /\ idx' = 1
    /\ processed_count' = 0
    /\ skipped_count' = 0
    /\ pc' = "wikidata"
    /\ UNCHANGED <<all_rows, events_by_date, day, calls, slept, events, ev_idx, df,
                   sorted_events_by_date, saved>>

\* one iteration of "for item in results", its try/except included
ProcessRow ==
    /\ pc = "wikidata" /\ idx <= Len(results)
    /\ LET item == results[idx]
       IN  IF DateRejected(item) \/ LabelRejected(item)
           THEN /\ skipped_count' = skipped_count + 1
                /\ UNCHANGED <<all_rows, events_by_date, processed_count>>
           ELSE LET row == WikidataRecord(item)
                    dt == item.date[1]
                IN  /\ all_rows' = Append(all_rows, row)
                    /\ events_by_date' =
                           GroupAppend(events_by_date, DateLabel(dt[2], dt[3]),
                                       [key |-> row.event, payload |-> Payload(row)])
                    /\ processed_count' = processed_count + 1
                    /\ UNCHANGED skipped_count
    /\ idx' = idx + 1
    /\ UNCHANGED <<pc, results, day, calls, slept, events, ev_idx, df,
                   sorted_events_by_date, saved>>

\* the loop is over: the summary is printed and the function returns
ResultsProcessed ==
    /\ pc = "wikidata" /\ idx > Len(results)
    /\ pc' = "feed"
    /\ results' = <<>>
    /\ idx' = 1
    /\ processed_count' = 0
    /\ skipped_count' = 0
    /\ UNCHANGED <<all_rows, events_by_date, day, calls, slept, events, ev_idx, df,
                   sorted_events_by_date, saved>>

\* the feeds session.get can return for a day
DayFeeds(d) ==
    IF d \in EventDays
    THEN IF Len(all_rows) < MaxRows
         THEN SeqsUpTo(FeedEvents, MaxRows - Len(all_rows))
         ELSE {<<>>}
    ELSE {<<>>}

\* session.get or raise_for_status raises: the day is logged and skipped
FetchFailed ==
    /\ pc = "feed" /\ GET_ON_THIS_DAY /\ day <= LastDay
    /\ calls' = Append(calls, day)
    /\ slept' = FALSE
    /\ day' = day + 1
    /\ UNCHANGED <<pc, all_rows, events_by_date, results, idx, processed_count,
                   skipped_count, events, ev_idx, df, sorted_events_by_date, saved>>

\* the day's feed is fetched
FetchDay ==
    /\ pc = "feed" /\ GET_ON_THIS_DAY /\ day <= LastDay
    /\ calls' = Append(calls, day)
    /\ slept' = FALSE
    /\ \E f \in DayFeeds(day) : events' = f
    /\ ev_idx' = 1
    /\ pc' = "events"
    /\ UNCHANGED <<all_rows, events_by_date, results, idx, processed_count,
                   skipped_count, day, df, sorted_events_by_date, saved>>

\* one iteration of "for ev in data.get('events', [])" that raises nothing
ProcessEvent ==
    /\ pc = "events" /\ ev_idx <= Len(events)
    /\ ~RaisesKeyError(events[ev_idx])
    /\ LET ev == events[ev_idx]
           dt == DateOfDay(day)
       IN  IF EventKept(ev)
           THEN LET row == OnThisDayRecord(ev, dt)
                IN  /\ all_rows' = Append(all_rows, row)
                    /\ events_by_date' =
                           GroupAppend(events_by_date, DateLabel(dt.month, dt.day),
                                       [key |-> ev.text[1], payload |-> Payload(row)])
           ELSE UNCHANGED <<all_rows, events_by_date>>
    /\ ev_idx' = ev_idx + 1
    /\ UNCHANGED <<pc, results, idx, processed_count, skipped_count, day, calls, slept,
                   events, df, sorted_events_by_date, saved>>

\* the iteration raises KeyError; main has no handler for it and the
\* interpreter exits with a traceback
EventRaises ==
    /\ pc = "events" /\ ev_idx <= Len(events)
    /\ RaisesKeyError(events[ev_idx])
    /\ pc' = "crashed"
    /\ UNCHANGED <<all_rows, events_by_date, results, idx, processed_count, skipped_count,
                   day, calls, slept, events, ev_idx, df, sorted_events_by_date, saved>>

\* time.sleep(PAUSE_SEC) at the end of the day's iteration
Sleep ==
    /\ pc = "events" /\ ev_idx > Len(events)
    /\ slept' = TRUE
    /\ day' = day + 1
    /\ events' = <<>>
    /\ ev_idx' = 1
    /\ pc' = "feed"
    /\ UNCHANGED <<all_rows, events_by_date, results, idx, processed_count,
                   skipped_count, calls, df, sorted_events_by_date, saved>>

\* range(1, 367) is exhausted
FeedComplete ==
    /\ pc = "feed" /\ day > LastDay
    /\ pc' = "export"
    /\ UNCHANGED <<all_rows, events_by_date, results, idx, processed_count, skipped_count,
                   day, calls, slept, events, ev_idx, df, sorted_events_by_date, saved>>

\* "if all_rows:" both files are written, else nothing is
Export ==
    /\ pc = "export"
    /\ IF all_rows # <<>>
       THEN /\ df' = SortRows(all_rows)
            /\ sorted_events_by_date' = SortGroups(events_by_date)
            /\ saved' = TRUE
       ELSE UNCHANGED <<df, sorted_events_by_date, saved>>
    /\ pc' = "done"
    /\ UNCHANGED <<all_rows, events_by_date, results, idx, processed_count, skipped_count,
                   day, calls, slept, events, ev_idx>>

Next ==
    \/ QueryFailed
    \/ ResultsMalformed
    \/ ResultsReceived
    \/ ProcessRow
    \/ ResultsProcessed
    \/ FetchFailed
    \/ FetchDay
    \/ ProcessEvent
    \/ EventRaises
    \/ Sleep
    \/ FeedComplete
    \/ Export

Spec == Init /\ [][Next]_vars

TypeOK == pc \in {"start", "wikidata", "feed", "events", "export", "done", "crashed"}

\* ------------------------------------------------------------------ properties
Min(a, b) == IF a < b THEN a ELSE b

\* the date label a record's zero-padded month and day stand for
RowLabel(row) == DateLabel(StrOrd(row.month), StrOrd(row.day))

\* the entries a sequence of records must have under label, in order
RECURSIVE EntriesOf(_, _)
EntriesOf(rows, label) ==
    IF rows = <<>> THEN <<>>
    ELSE LET rest == EntriesOf(Tail(rows), label)
             row == Head(rows)
         IN  IF RowLabel(row) = label
             THEN <<[key |-> row.event, payload |-> Payload(row)]>> \o rest
             ELSE rest

\* the number of ", "-separated entries of a joined string
EntryCount(s) ==
    IF s = <<>> THEN 0
    ELSE 1 + Cardinality({i \in 1..(Len(s) - 1) : s[i] = "," /\ s[i + 1] = " "})

\* the event the loop handled last, when it is in the middle of a day's feed
LastEvent == events[ev_idx - 1]
LastRow == all_rows[Len(all_rows)]

\* the row's date is absent or names no calendar day
DateUnusable(item) == item.date = <<>> \/ ~IsIsoDate(item.date[1])

\* C1: every record of all_rows has year_of_event >= YEAR_CUTOFF, whichever
\* source it comes from.
C1_YearAtOrAboveCutoff ==
    \A i \in 1..Len(all_rows) : all_rows[i].year_of_event >= YEAR_CUTOFF

\* C2: between any two rows or events, and at export, the two accumulators
\* are in lockstep: the keys of events_by_date are distinct, each key is the
\* label of some record, and under every label the entries are exactly the
\* records of all_rows with that label, one entry per record, keyed by the
\* record's event text, in the order of all_rows.
C2_Lockstep ==
    /\ \A i, j \in 1..Len(events_by_date) :
           events_by_date[i].label = events_by_date[j].label => i = j
    /\ \A i \in 1..Len(events_by_date) :
           /\ events_by_date[i].entries # <<>>
           /\ events_by_date[i].entries = EntriesOf(all_rows, events_by_date[i].label)
    /\ \A i \in 1..Len(all_rows) : HasKey(events_by_date, RowLabel(all_rows[i]))

\* a label that holds a record of each source
C2_Witness ==
    \E g \in 1..Len(events_by_date) :
        /\ Len(events_by_date[g].entries) = 2
        /\ Len(all_rows) = 2
        /\ all_rows[1].source = "Wikidata" /\ all_rows[2].source = "OnThisDay"

\* C3: no input terminates the run abnormally; main always goes on to the
\* export step.
C3_NoAbnormalTermination == pc # "crashed"

\* the letter Q followed by digits
IsEntityId(s) == Len(s) >= 2 /\ s[1] = "Q" /\ \A i \in 2..Len(s) : s[i] \in Digits

\* C4: a row with a parseable date is skipped exactly when its label is
\* absent, empty, or a raw entity identifier; otherwise it is appended to
\* both accumulators.
C4_LabelRejection ==
    [][(pc = "wikidata" /\ idx <= Len(results) /\ ~DateUnusable(results[idx]))
        => LET label == results[idx].itemLabel
               unresolved == label = <<>> \/ label[1] = <<>> \/ IsEntityId(label[1])
           IN  /\ unresolved <=> skipped_count' = skipped_count + 1
               /\ ~unresolved <=> (/\ Len(all_rows') = Len(all_rows) + 1
                                   /\ events_by_date' # events_by_date)]_vars

\* C5: a row whose date is absent or unparseable leaves both accumulators
\* unchanged and increments skipped_count only; every row handled increments
\* exactly one counter, so at the end of the batch processed_count +
\* skipped_count is the number of rows received and processed_count is the
\* number of records appended.
C5_Counters ==
    /\ [](pc = "wikidata" =>
            /\ processed_count + skipped_count = idx - 1
            /\ processed_count = Len(all_rows)
            /\ (idx > Len(results) => processed_count + skipped_count = Len(results)))
    /\ [][(pc = "wikidata" /\ idx <= Len(results))
           => /\ \/ (processed_count' = processed_count + 1 /\ skipped_count' = skipped_count)
                 \/ (processed_count' = processed_count /\ skipped_count' = skipped_count + 1)
              /\ DateUnusable(results[idx])
                    => /\ all_rows' = all_rows
                       /\ events_by_date' = events_by_date
                       /\ skipped_count' = skipped_count + 1
                       /\ processed_count' = processed_count]_vars

\* a finished batch of two rows, one skipped for its date and one processed
C5_Witness ==
    /\ pc = "wikidata" /\ idx > Len(results) /\ Len(results) = 2
    /\ DateUnusable(results[1]) /\ results[1].date # <<>> /\ results[1].date[1] # <<>>
    /\ skipped_count = 1 /\ processed_count = 1

\* C6: an event of a fetched day feed contributes a record to all_rows and an
\* entry to events_by_date exactly when its text matches a keyword, its year
\* is present and at or above the cutoff, and its pages list is non-empty.
C6_EventContributes ==
    [][(pc = "events" /\ ev_idx <= Len(events))
        => LET ev == events[ev_idx]
               qualifies == /\ ev.text # <<>> /\ HasMatch(GetOr(ev.text, <<>>))
                            /\ ev.year # <<>> /\ GetOr(ev.year, 0) >= YEAR_CUTOFF
                            /\ GetOr(ev.pages, <<>>) # <<>>
           IN  qualifies <=> (/\ Len(all_rows') = Len(all_rows) + 1
                              /\ events_by_date' # events_by_date)]_vars

\* C7: the loop issues one retrieval call for each of the 366 days, in
\* calendar order: a run that has ended has called every day once.
C7_EveryDayCalled ==
    /\ \A i \in 1..Len(calls) : calls[i] = i
    /\ pc \in {"export", "done", "crashed"} => Len(calls) = LastDay

\* the (month, day) pair a date label reads as
Chrono(label) ==
    <<CHOOSE k \in 1..12 : month_name[k] = label.name, label.num>>

Before(a, b) == a[1] < b[1] \/ (a[1] = b[1] /\ a[2] < b[2])

\* C8: the keys of the grouped output are in strictly increasing (month, day)
\* order, and the output holds the items of events_by_date.
C8_ChronologicalKeys ==
    saved =>
        /\ \A i \in 1..(Len(sorted_events_by_date) - 1) :
               Before(Chrono(sorted_events_by_date[i].label),
                      Chrono(sorted_events_by_date[i + 1].label))
        /\ Len(sorted_events_by_date) = Len(events_by_date)
        /\ {sorted_events_by_date[i] : i \in 1..Len(sorted_events_by_date)}
               = {events_by_date[i] : i \in 1..Len(events_by_date)}

\* January 10 was inserted before January 2 and is written after it
C8_Witness ==
    /\ saved /\ Len(events_by_date) = 2
    /\ events_by_date[1].label = DateLabel(1, 10) /\ events_by_date[2].label = DateLabel(1, 2)
    /\ sorted_events_by_date[1].label = DateLabel(1, 2)

\* C9: no two feed requests are issued without a pause between them.
C9_PauseBetweenCalls ==
    [][(calls' # calls /\ calls # <<>>) => slept]_vars

\* the last event of the feed was accepted
LastEventAccepted ==
    /\ pc = "events" /\ ev_idx > 1
    /\ LastEvent.text # <<>> /\ EventKept(LastEvent)

\* C10 as stated: related_topics and topic_page_urls hold min(n - 1, MAX_PAGES)
\* entries.
C10_RelatedUpToMaxPages ==
    LastEventAccepted =>
        LET n == Len(LastEvent.pages[1])
        IN  /\ EntryCount(LastRow.related_topics) = Min(n - 1, MAX_PAGES)
            /\ EntryCount(LastRow.topic_page_urls) = Min(n - 1, MAX_PAGES)

\* C10 amended: related_topics and topic_page_urls are built from pages 2 to
\* min(n, MAX_PAGES) in feed order; they hold min(n - 1, MAX_PAGES - 1)
\* entries, never the primary page, and are empty when n = 1.
C10_RelatedWithinMaxPages ==
    LastEventAccepted =>
        LET pages == LastEvent.pages[1]
            n == Len(pages)
            k == Min(n - 1, MAX_PAGES - 1)
        IN  /\ EntryCount(LastRow.related_topics) = k
            /\ EntryCount(LastRow.topic_page_urls) = k
            /\ LastRow.related_topics =
                   Join([i \in 1..k |-> ReplaceUnderscore(pages[i + 1].title[1])])
            /\ LastRow.topic_page_urls =
                   Join([i \in 1..k |-> ReplaceUnderscore(pages[i + 1].title[1])
                                          \o <<":", " ">> \o GetOr(pages[i + 1].page_url, <<>>)])
            /\ n = 1 => LastRow.related_topics = <<>> /\ LastRow.topic_page_urls = <<>>

\* an accepted event with more than MAX_PAGES pages
C10_Witness ==
    /\ LastEventAccepted
    /\ Len(LastEvent.pages[1]) > MAX_PAGES
    /\ EntryCount(LastRow.related_topics) = MAX_PAGES - 1

====
